---- MODULE Spec2Model ----
(***************************************************************************)
(* Session process supervisor and real-time log broadcast engine.          *)
(*                                                                         *)
(* The server is a single-threaded event loop.  MemStorage's methods are   *)
(* async but contain no real I/O, so every `await` in a route handler or   *)
(* an event callback resumes in the microtask drain of the same event-loop *)
(* turn: a handler runs to completion before the next request, process     *)
(* event, socket event or timer is dispatched.  One action below is one    *)
(* such handler, from its first statement to its last.  SpecTurn does not  *)
(* rely on this for the output listeners: it lets the part of a listener   *)
(* before the `await` of addLogAndBroadcast and the part after it run as   *)
(* two steps, with other listeners in between.  SpecLogs and SpecSessions  *)
(* call the methods of MemStorage directly, as any importer of the         *)
(* exported `storage` object may, with arguments the routes never pass.    *)
(* SpecGen and SpecStatus add the output listeners to restart and to the   *)
(* whole lifecycle, SpecShutdown adds the SIGINT hook, and SpecDashboard   *)
(* puts the Dashboard page at the other end of the first WebSocket.        *)
(***************************************************************************)
EXTENDS Integers, Sequences, FiniteSets, TLC

(* ------------------------------ bounds --------------------------------- *)
MaxSessions  == 2      \* sessions ever created
MaxTime      == 3      \* readings of the clock by the handlers
MaxHubEvents == 4      \* connections accepted plus readings of the clock, with observers

(* --------------------------- value domains ----------------------------- *)
NULL     == "null"                 \* null / undefined text field
NoTime   == -1                     \* endTime: null
NoPid    == 0                      \* tmateProcess.pid undefined
NoCode   == -1                     \* exit code null (terminated by a signal)
NoProc   == 0                      \* no ChildProcess object
NoId     == 0                      \* no session id
NoSpawn  == -1                     \* the handler did not call spawn
NoClient == 0                      \* the handler is not a WebSocket's

Tokens    == {"t1", "t2"}          \* results generateSessionId() may return
Bodies    == {[name |-> "dev", region |-> "auto"]}   \* req.body
ExitCodes == {0, 1, NoCode}        \* `code` of the 'exit' event
Chunks    == {<<" ">>, <<" ", "a">>}             \* stdout / stderr data

VARIABLES
  sessions,          \* MemStorage.sessions : id -> Session
  currentSessionId,  \* MemStorage.currentSessionId
  logs,              \* MemStorage.logs : id -> Log
  currentLogId,      \* MemStorage.currentLogId
  activeProcesses,   \* activeProcesses : sessionId token -> ChildProcess
  wsClients,         \* wsClients : set of WebSocket
  procs,             \* the ChildProcess objects spawned so far
  timers,            \* pending setTimeout callbacks of create
  sockets,           \* the WebSocket objects accepted so far
  now,               \* the clock read by new Date(); it advances between two
                     \* handlers that read it
  stopRequested,     \* sessions whose latest stop was not followed by a restart
  pending,           \* records stored by addLog whose broadcastLog has not run yet
  dashboard,         \* the Dashboard page: its `logs` state, the WebSocket
                     \* messages it has handled, the /api/logs result on its way
  last               \* the handler that ran last, with what it saw

vars == <<sessions, currentSessionId, logs, currentLogId, activeProcesses,
          wsClients, procs, timers, sockets, now, stopRequested, pending,
          dashboard, last>>

\* parseInt(req.params.id): the ids allocated so far and one that is not
Ids == 1..currentSessionId

(* ------------------------------ helpers -------------------------------- *)
\* Map.set(k, v)
MapSet(m, k, v) == [x \in DOMAIN m \cup {k} |-> IF x = k THEN v ELSE m[x]]

\* a delete that leaves the entry in place
MapKeep(m, k) == m

\* Map.delete(k)
MapDelete(m, k) == [x \in DOMAIN m \ {k} |-> m[x]]

\* Map.get(k), undefined as `none`
MapGet(m, k, none) == IF k \in DOMAIN m THEN m[k] ELSE none

\* { ...a, ...b } : the fields of b override those of a
Spread(a, b) == [f \in DOMAIN a \cup DOMAIN b |-> IF f \in DOMAIN b THEN b[f] ELSE a[f]]

\* String.prototype.trim on a chunk of characters
RECURSIVE TrimLeft(_)
TrimLeft(s) == IF s = <<>> THEN s
               ELSE IF Head(s) = " " THEN TrimLeft(Tail(s)) ELSE s

RECURSIVE TrimRight(_)
TrimRight(s) == IF s = <<>> THEN s
                ELSE IF s[Len(s)] = " " THEN TrimRight(SubSeq(s, 1, Len(s) - 1)) ELSE s

Trim(s) == TrimRight(TrimLeft(s))

\* template literal ${code}
CodeStr(code) == IF code = 0 THEN "0" ELSE IF code = NoCode THEN "null" ELSE "1"

(* ---------------------------- MemStorage ------------------------------- *)
\* createSession that also stamps the end time
NewSessionEnded(insertSession, id, t) ==
  Spread(insertSession, [id |-> id, startTime |-> t, endTime |-> t])

\* createSession: the record stored under the next id
NewSession(insertSession, id, t) ==
  Spread(insertSession, [id |-> id, startTime |-> t, endTime |-> NoTime])

\* a read of the record that returns what the previous updateSession call read
SessionReadEarlier(ss, id) ==
  IF last.op = "updateSession" /\ last.seen # << >> /\ last.arg[1] = id
  THEN last.seen[1] ELSE ss[id]

\* updateSession: `const session = this.sessions.get(id)`, read in the same
\* synchronous body that stores the merged record
SessionRead(ss, id) == ss[id]

\* updateSession that stores `updates` under an id the map does not hold
UpdateSessionInserts(ss, id, updates) ==
  IF id \notin DOMAIN ss THEN MapSet(ss, id, updates)
  ELSE MapSet(ss, id, Spread(SessionRead(ss, id), updates))

\* updateSession: the map after merging `updates` into session `id`
UpdateSession(ss, id, updates) ==
  IF id \notin DOMAIN ss THEN ss
  ELSE MapSet(ss, id, Spread(SessionRead(ss, id), updates))

\* addLog: the record stored under the next id
NewLog(insertLog, id, t) == Spread(insertLog, [id |-> id, timestamp |-> t])

(* --------------------------- Broadcast hub ----------------------------- *)
\* broadcastLog whose loop ends at the first client that is not OPEN
BroadcastLogUntilFailure(sk, clients, log) ==
  [c \in DOMAIN sk |->
     IF c \in clients /\ \A d \in clients : d <= c => sk[d].readyState = "OPEN"
     THEN [sk[c] EXCEPT !.inbox = Append(@, log.id)]
     ELSE sk[c]]

\* broadcastLog: every client of the set whose readyState is OPEN is sent it
BroadcastLog(sk, clients, log) ==
  [c \in DOMAIN sk |->
     IF c \in clients /\ sk[c].readyState = "OPEN"
     THEN [sk[c] EXCEPT !.inbox = Append(@, log.id)]
     ELSE sk[c]]

\* One addLogAndBroadcast call on the pair <<logs, next id, sockets>>
AddLogAndBroadcast(st, sessionId, message, level) ==
  LET log == NewLog([sessionId |-> sessionId, message |-> message, level |-> level],
                    st.nextId, now)
  IN  [logs    |-> MapSet(st.logs, st.nextId, log),
       nextId  |-> st.nextId + 1,
       sockets |-> BroadcastLog(st.sockets, wsClients, log)]

LogState == [logs |-> logs, nextId |-> currentLogId, sockets |-> sockets]

\* Commit the result of a handler's chain of addLogAndBroadcast calls
CommitLogs(st) ==
  /\ logs' = st.logs
  /\ currentLogId' = st.nextId
  /\ sockets' = st.sockets
  /\ now' = now + 1

ClockRuns == now < MaxTime

HubRuns == now + Len(sockets) < MaxHubEvents

(* ------------------------- Process supervisor -------------------------- *)
\* create without the pid check
SpawnNeverFails(pid) == FALSE

\* create: `if (!tmateProcess.pid) throw`
SpawnFailed(pid) == pid = NoPid

\* ChildProcess.kill('SIGTERM') on process p, sent by handler `by`
Kill(ps, p, by) == [ps EXCEPT ![p].signalledBy = by]

\* the ChildProcess object a successful spawn returns
NewProc(id, sessionId, gen) ==
  [id |-> id, sessionId |-> sessionId, gen |-> gen,
   live |-> TRUE, signalledBy |-> "none", trapsTerm |-> FALSE]

\* What a handler saw and did: the session and process it is about, the pid its
\* spawn returned, the exit code it was passed, the HTTP status it answered,
\* and the session's status and tracked handle when it started; for a call of
\* the store, its arguments, the record it read and the value it returned
Event(op, id, p, pid, code, resp) ==
  [op |-> op, id |-> id, proc |-> p, pid |-> pid, code |-> code, resp |-> resp,
   client |-> NoClient, arg |-> << >>, seen |-> << >>, reply |-> << >>,
   logId0 |-> currentLogId,
   status0 |-> IF id \in DOMAIN sessions THEN sessions[id].status ELSE "none",
   tracked0 |-> IF id \in DOMAIN sessions
                THEN MapGet(activeProcesses, sessions[id].sessionId, NoProc)
                ELSE NoProc]

(* ------------------------------- Init ---------------------------------- *)
Init ==
  /\ sessions = << >>
  /\ currentSessionId = 1
  /\ logs = << >>
  /\ currentLogId = 1
  /\ activeProcesses = << >>
  /\ wsClients = {}
  /\ procs = << >>
  /\ timers = {}
  /\ sockets = << >>
  /\ now = 0
  /\ stopRequested = {}
  /\ pending = << >>
  /\ dashboard = [logs |-> << >>, handled |-> 0, recentLogs |-> << >>]
  /\ last = [op |-> "init", id |-> NoId, proc |-> NoProc, pid |-> NoSpawn,
             code |-> NoCode, resp |-> 0, client |-> NoClient,
             arg |-> << >>, seen |-> << >>, reply |-> << >>,
             logId0 |-> 1, status0 |-> "none", tracked0 |-> NoProc]

(* ----------------------- Lifecycle controller -------------------------- *)
\* create: `validation.region === 'auto' ? 'nyc1' : validation.region || 'nyc1'`
RegionOf(region) ==
  IF region = "auto" THEN "nyc1" ELSE IF region = NULL THEN "nyc1" ELSE region

SshCommand(sessionId, region) == <<"ssh ", sessionId, "@", RegionOf(region), ".tmate.io">>

ReadOnlyCommand(sessionId, region) == <<"ssh ro-", sessionId, "@", RegionOf(region), ".tmate.io">>

WebUrl(sessionId) == <<"https://tmate.io/t/", sessionId>>

\* create that stores the session without its token
CreateInsertUnnamed(sessionId, name, region, pid) ==
  [sessionId |-> NULL, name |-> name,
   sshCommand |-> SshCommand(sessionId, region),
   readOnlyCommand |-> ReadOnlyCommand(sessionId, region),
   webUrl |-> WebUrl(sessionId),
   status |-> "running", region |-> region, processId |-> pid]

\* create: the argument of storage.createSession
CreateInsert(sessionId, name, region, pid) ==
  [sessionId |-> sessionId, name |-> name,
   sshCommand |-> SshCommand(sessionId, region),
   readOnlyCommand |-> ReadOnlyCommand(sessionId, region),
   webUrl |-> WebUrl(sessionId),
   status |-> "running", region |-> region, processId |-> pid]

\* stop that forgets the end time
StopUpdatesNoEnd(t) == [status |-> "stopped"]

\* stop: the argument of storage.updateSession
StopUpdates(t) == [status |-> "stopped", endTime |-> t]

\* restart that leaves the end time in place
RestartUpdatesKeepEnd(pid) == [status |-> "running", processId |-> pid]

\* restart: the argument of storage.updateSession
RestartUpdates(pid) == [status |-> "running", processId |-> pid, endTime |-> NoTime]

\* 'exit' listener that derives the status from the exit code
ExitUpdatesByCode(code, t) ==
  [status |-> IF code = 0 THEN "stopped" ELSE "error", endTime |-> t]

\* 'exit' listener: the argument of storage.updateSession
ExitUpdates(code, t) == [status |-> "stopped", endTime |-> t]

\* 'exit' listener that logs every exit as an error
ExitLevelError(code) == "error"

\* 'exit' listener: `code === 0 ? 'info' : 'error'`
ExitLevel(code) == IF code = 0 THEN "info" ELSE "error"

\* 'error' listener that marks the session as running
ErrorUpdatesRunning == [status |-> "running"]

\* 'error' listener: the argument of storage.updateSession
ErrorUpdates == [status |-> "error"]

\* POST /api/sessions
CreateSession(name, region, sessionId, pid) ==
  IF SpawnFailed(pid)
  THEN /\ last' = Event("create", NoId, NoProc, pid, NoCode, 500)
       /\ UNCHANGED <<sessions, currentSessionId, logs, currentLogId, activeProcesses,
                      wsClients, procs, timers, sockets, now, stopRequested, pending, dashboard>>
  ELSE LET id == currentSessionId
           p  == Len(procs) + 1
           st == AddLogAndBroadcast(LogState, sessionId,
                                    <<"Starting tmate session: ", sessionId>>, "info")
       IN  /\ currentSessionId <= MaxSessions
           /\ ClockRuns
           /\ sessions' = MapSet(sessions, id,
                                 NewSession(CreateInsert(sessionId, name, region, pid), id, now))
           /\ currentSessionId' = id + 1
           /\ procs' = Append(procs, NewProc(id, sessionId, "create"))
           /\ activeProcesses' = MapSet(activeProcesses, sessionId, p)
           /\ CommitLogs(st)
           /\ timers' = timers \cup {id}
           /\ last' = Event("create", id, p, pid, NoCode, 201)
           /\ UNCHANGED <<wsClients, stopRequested, pending, dashboard>>

\* the status `res.json(updatedSession)` answers with: a not-found guard that
\* answers as if the session existed
NotFoundAccepted == 200

\* stop, restart: `if (!session) return res.status(404)`
NotFound == 404

\* a lookup that falls back on a live child of the session when none is tracked
TrackedOrLive(sessionId) ==
  IF sessionId \in DOMAIN activeProcesses THEN activeProcesses[sessionId]
  ELSE IF \E q \in DOMAIN procs : procs[q].sessionId = sessionId /\ procs[q].live
       THEN CHOOSE q \in DOMAIN procs : procs[q].sessionId = sessionId /\ procs[q].live
       ELSE NoProc

\* stop: `activeProcesses.get(session.sessionId)`
Tracked(sessionId) == MapGet(activeProcesses, sessionId, NoProc)

\* POST /api/sessions/:id/stop
StopSession(id) ==
  IF id \notin DOMAIN sessions
  THEN /\ last' = Event("stop", id, NoProc, NoSpawn, NoCode, NotFound)
       /\ UNCHANGED <<sessions, currentSessionId, logs, currentLogId, activeProcesses,
                      wsClients, procs, timers, sockets, now, stopRequested, pending, dashboard>>
  ELSE LET session == sessions[id]
           process == Tracked(session.sessionId)
           killed  == IF process # NoProc THEN Kill(procs, process, "stop") ELSE procs
           st == AddLogAndBroadcast(LogState, session.sessionId,
                                    <<"Session stopped by user">>, "warning")
       IN  /\ ClockRuns
           /\ procs' = killed
           /\ activeProcesses' = IF process # NoProc
                                 THEN MapDelete(activeProcesses, session.sessionId)
                                 ELSE activeProcesses
           /\ sessions' = UpdateSession(sessions, id, StopUpdates(now))
           /\ CommitLogs(st)
           /\ stopRequested' = stopRequested \cup {id}
           /\ last' = Event("stop", id, process, NoSpawn, NoCode, 200)
           /\ UNCHANGED <<currentSessionId, wsClients, timers, pending, dashboard>>

\* POST /api/sessions/:id/restart
RestartSession(id, pid) ==
  IF id \notin DOMAIN sessions
  THEN /\ last' = Event("restart", id, NoProc, NoSpawn, NoCode, NotFound)
       /\ UNCHANGED <<sessions, currentSessionId, logs, currentLogId, activeProcesses,
                      wsClients, procs, timers, sockets, now, stopRequested, pending, dashboard>>
  ELSE LET session == sessions[id]
           existingProcess == MapGet(activeProcesses, session.sessionId, NoProc)
           killed  == IF existingProcess # NoProc
                      THEN Kill(procs, existingProcess, "restart") ELSE procs
           removed == IF existingProcess # NoProc
                      THEN MapDelete(activeProcesses, session.sessionId)
                      ELSE activeProcesses
           p  == Len(procs) + 1
           st == AddLogAndBroadcast(LogState, session.sessionId,
                                    <<"Session restarted">>, "success")
       IN  IF SpawnFailed(pid)
           THEN /\ procs' = killed
                /\ activeProcesses' = removed
                /\ last' = Event("restart", id, NoProc, pid, NoCode, 500)
                /\ UNCHANGED <<sessions, currentSessionId, logs, currentLogId,
                               wsClients, timers, sockets, now, stopRequested, pending, dashboard>>
           ELSE /\ ClockRuns
                /\ procs' = Append(killed, NewProc(id, session.sessionId, "restart"))
                /\ activeProcesses' = MapSet(removed, session.sessionId, p)
                /\ sessions' = UpdateSession(sessions, id, RestartUpdates(pid))
                /\ CommitLogs(st)
                /\ stopRequested' = stopRequested \ {id}
                /\ last' = Event("restart", id, p, pid, NoCode, 200)
                /\ UNCHANGED <<currentSessionId, wsClients, timers, pending, dashboard>>

\* tmateProcess.on('exit') as wired by create and by restart
ProcExit(p, code) ==
  LET st == AddLogAndBroadcast(LogState, procs[p].sessionId,
                               <<"Session ended with code: ", CodeStr(code)>>, ExitLevel(code))
  IN  /\ procs[p].live
      /\ sessions' = UpdateSession(sessions, procs[p].id, ExitUpdates(code, now))
      /\ CommitLogs(st)
      /\ activeProcesses' = MapDelete(activeProcesses, procs[p].sessionId)
      /\ procs' = [procs EXCEPT ![p].live = FALSE]
      /\ last' = Event("exit", procs[p].id, p, NoSpawn, code, 0)
      /\ UNCHANGED <<currentSessionId, wsClients, timers, stopRequested, pending, dashboard>>

\* tmateProcess.on('error'): wired by create only; restart attaches no listener
ProcError(p) ==
  /\ procs[p].live
  /\ IF procs[p].gen = "create"
     THEN LET st == AddLogAndBroadcast(LogState, procs[p].sessionId,
                                       <<"Process error: ", "message">>, "error")
          IN  /\ ClockRuns
              /\ sessions' = UpdateSession(sessions, procs[p].id, ErrorUpdates)
              /\ CommitLogs(st)
              /\ activeProcesses' = MapDelete(activeProcesses, procs[p].sessionId)
     ELSE UNCHANGED <<sessions, logs, currentLogId, sockets, now, activeProcesses>>
  /\ last' = Event("error", procs[p].id, p, NoSpawn, NoCode, 0)
  /\ UNCHANGED <<currentSessionId, wsClients, procs, timers, stopRequested, pending, dashboard>>

\* stdout / stderr 'data' listeners share this body, up to the level
ProcOutput(op, p, data, level) ==
  LET output == Trim(data)
      st == AddLogAndBroadcast(LogState, procs[p].sessionId, output, level)
  IN  /\ procs[p].live
      /\ IF output # <<>>
         THEN ClockRuns /\ CommitLogs(st)
         ELSE UNCHANGED <<logs, currentLogId, sockets, now>>
      /\ last' = [Event(op, procs[p].id, p, NoSpawn, NoCode, 0) EXCEPT !.arg = <<data>>]
      /\ UNCHANGED <<sessions, currentSessionId, activeProcesses, wsClients, procs,
                     timers, stopRequested, pending, dashboard>>

\* tmateProcess.stdout.on('data')
ProcStdout(p, data) == ProcOutput("stdout", p, data, "info")

\* a stderr listener that logs at the level of stdout
ProcStderrAsInfo(p, data) == ProcOutput("stderr", p, data, "info")

\* tmateProcess.stderr.on('data')
ProcStderr(p, data) == ProcOutput("stderr", p, data, "error")

\* the setTimeout callback of create
ReadyTimer(id) ==
  LET s  == sessions[id]
      s1 == AddLogAndBroadcast(LogState, s.sessionId, <<"Tmate session created successfully!">>, "success")
      s2 == AddLogAndBroadcast(s1, s.sessionId, <<"SSH: ">> \o s.sshCommand, "info")
      s3 == AddLogAndBroadcast(s2, s.sessionId, <<"Web: ">> \o s.webUrl, "info")
      s4 == AddLogAndBroadcast(s3, s.sessionId, <<"Session is ready for connections">>, "success")
  IN  /\ id \in timers
      /\ ClockRuns
      /\ CommitLogs(s4)
      /\ timers' = timers \ {id}
      /\ last' = Event("timer", id, NoProc, NoSpawn, NoCode, 0)
      /\ UNCHANGED <<sessions, currentSessionId, activeProcesses, wsClients, procs, stopRequested, pending, dashboard>>

(* ----------------------------- Observers ------------------------------- *)
\* wss.on('connection')
WsConnect ==
  /\ HubRuns
  /\ sockets' = Append(sockets, [readyState |-> "OPEN", inbox |-> <<>>])
  /\ wsClients' = wsClients \cup {Len(sockets) + 1}
  /\ last' = [Event("connect", NoId, NoProc, NoSpawn, NoCode, 0)
                 EXCEPT !.client = Len(sockets) + 1]
  /\ UNCHANGED <<sessions, currentSessionId, logs, currentLogId, activeProcesses,
                 procs, timers, now, stopRequested, pending, dashboard>>

\* the closing handshake starts: readyState leaves OPEN before 'close' is emitted
WsClosing(c) ==
  /\ sockets[c].readyState = "OPEN"
  /\ sockets' = [sockets EXCEPT ![c].readyState = "CLOSING"]
  /\ last' = [Event("closing", NoId, NoProc, NoSpawn, NoCode, 0) EXCEPT !.client = c]
  /\ UNCHANGED <<sessions, currentSessionId, logs, currentLogId, activeProcesses,
                 wsClients, procs, timers, now, stopRequested, pending, dashboard>>

\* a 'close' listener that leaves the client in the set
WsCloseKeeps(c) ==
  /\ sockets[c].readyState \in {"OPEN", "CLOSING"}
  /\ sockets' = [sockets EXCEPT ![c].readyState = "CLOSED"]
  /\ last' = [Event("close", NoId, NoProc, NoSpawn, NoCode, 0) EXCEPT !.client = c]
  /\ UNCHANGED <<sessions, currentSessionId, logs, currentLogId, activeProcesses,
                 wsClients, procs, timers, now, stopRequested, pending, dashboard>>

\* ws.on('close')
WsClose(c) ==
  /\ sockets[c].readyState \in {"OPEN", "CLOSING"}
  /\ sockets' = [sockets EXCEPT ![c].readyState = "CLOSED"]
  /\ wsClients' = wsClients \ {c}
  /\ last' = [Event("close", NoId, NoProc, NoSpawn, NoCode, 0) EXCEPT !.client = c]
  /\ UNCHANGED <<sessions, currentSessionId, logs, currentLogId, activeProcesses,
                 procs, timers, now, stopRequested, pending, dashboard>>

\* ws.on('error')
WsError(c) ==
  /\ sockets[c].readyState \in {"OPEN", "CLOSING"}
  /\ sockets' = [sockets EXCEPT ![c].readyState = "CLOSING"]
  /\ wsClients' = wsClients \ {c}
  /\ last' = [Event("wserror", NoId, NoProc, NoSpawn, NoCode, 0) EXCEPT !.client = c]
  /\ UNCHANGED <<sessions, currentSessionId, logs, currentLogId, activeProcesses,
                 procs, timers, now, stopRequested, pending, dashboard>>

\* POST /api/sessions with any body, any generated token, any spawn outcome
Create ==
  \E body \in Bodies, sessionId \in Tokens, pid \in {NoPid, Len(procs) + 1} :
     CreateSession(body.name, body.region, sessionId, pid)

Stop == \E id \in Ids : StopSession(id)

Restart == \E id \in Ids, pid \in {NoPid, Len(procs) + 1} : RestartSession(id, pid)

Exit == ClockRuns /\ \E p \in DOMAIN procs, code \in ExitCodes : ProcExit(p, code)

Error == \E p \in DOMAIN procs : ProcError(p)

Stdout == \E p \in DOMAIN procs, data \in Chunks : ProcStdout(p, data)

Stderr == \E p \in DOMAIN procs, data \in Chunks : ProcStderr(p, data)

Timer == \E id \in DOMAIN sessions : ReadyTimer(id)

Closing == \E c \in DOMAIN sockets : WsClosing(c)

Close == \E c \in DOMAIN sockets : WsClose(c)

SocketError == \E c \in DOMAIN sockets : WsError(c)

\* Lifecycle requests and process events, with no observer connected
Next == Create \/ Stop \/ Restart \/ Exit \/ Error \/ Timer

Spec == Init /\ [][Next]_vars

\* Log production and observers: sessions are created and their children write
\* output while observers come and go, within a budget of hub events
HubCreate == HubRuns /\ Create

HubStdout == HubRuns /\ Stdout

HubStderr == HubRuns /\ Stderr

HubTimer == HubRuns /\ Timer

\* stop and restart requests that name no stored session
HubStopUnknown == HubRuns /\ \E id \in Ids \ DOMAIN sessions : StopSession(id)

HubRestartUnknown == HubRuns /\ \E id \in Ids \ DOMAIN sessions : RestartSession(id, NoPid)

NextHub ==
  HubCreate \/ HubStdout \/ HubStderr \/ HubTimer
    \/ HubStopUnknown \/ HubRestartUnknown
    \/ WsConnect \/ Closing \/ Close \/ SocketError

SpecHub == Init /\ [][NextHub]_vars

(* ------------------- Turns with several output chunks ------------------ *)
\* a continuation queue that runs the newest continuation first
NewestContinuation(q) == Len(q)

\* `await storage.addLog(...)`: continuations run first-in first-out
NextContinuation(q) == 1

\* every queued continuation has run
Drained == pending = << >>

\* a 'data' listener up to the `await` of addLogAndBroadcast: addLog has stored
\* the record, the call of broadcastLog is queued behind the earlier ones
OutputAppend(op, p, data, level) ==
  LET output == Trim(data)
      log == NewLog([sessionId |-> procs[p].sessionId, message |-> output, level |-> level],
                    currentLogId, now)
  IN  /\ procs[p].live
      /\ output # <<>>
      /\ logs' = MapSet(logs, currentLogId, log)
      /\ currentLogId' = currentLogId + 1
      /\ now' = now + 1
      /\ pending' = Append(pending, currentLogId)
      /\ last' = [Event(op, procs[p].id, p, NoSpawn, NoCode, 0) EXCEPT !.arg = <<data>>]
      /\ UNCHANGED <<sessions, currentSessionId, activeProcesses, wsClients, procs,
                     timers, sockets, stopRequested, dashboard>>

\* addLogAndBroadcast after its `await`: broadcastLog(log)
ResumeBroadcast ==
  /\ ~Drained
  /\ LET i == NextContinuation(pending)
     IN  /\ sockets' = BroadcastLog(sockets, wsClients, logs[pending[i]])
         /\ pending' = SubSeq(pending, 1, i - 1) \o SubSeq(pending, i + 1, Len(pending))
  /\ last' = Event("broadcast", NoId, NoProc, NoSpawn, NoCode, 0)
  /\ UNCHANGED <<sessions, currentSessionId, logs, currentLogId, activeProcesses,
                 wsClients, procs, timers, now, stopRequested, dashboard>>

\* Requests and socket events start a turn, so they find the queue drained;
\* output listeners may run back to back before their continuations do
TurnCreate == Drained /\ HubCreate

TurnStdout == HubRuns /\ \E p \in DOMAIN procs, data \in Chunks : OutputAppend("stdout", p, data, "info")

TurnStderr == HubRuns /\ \E p \in DOMAIN procs, data \in Chunks : OutputAppend("stderr", p, data, "error")

TurnConnect == Drained /\ WsConnect

TurnClosing == Drained /\ Closing

TurnClose == Drained /\ Close

TurnSocketError == Drained /\ SocketError

NextTurn ==
  TurnCreate \/ TurnStdout \/ TurnStderr \/ ResumeBroadcast
    \/ TurnConnect \/ TurnClosing \/ TurnClose \/ TurnSocketError

SpecTurn == Init /\ [][NextTurn]_vars

(* ------------------ Children and the termination signal ---------------- *)
\* the child installs a handler that ignores SIGTERM, before any signal is sent
TrapTerm(p) ==
  /\ procs[p].live
  /\ procs[p].signalledBy = "none"
  /\ ~procs[p].trapsTerm
  /\ procs' = [procs EXCEPT ![p].trapsTerm = TRUE]
  /\ last' = Event("trap", procs[p].id, p, NoSpawn, NoCode, 0)
  /\ UNCHANGED <<sessions, currentSessionId, logs, currentLogId, activeProcesses,
                 wsClients, timers, sockets, now, stopRequested, pending, dashboard>>

\* a child that was sent SIGTERM and does not ignore it is ended by the signal:
\* its 'exit' event carries a null code
TermExitOf(p) ==
  /\ p \in DOMAIN procs
  /\ procs[p].signalledBy # "none"
  /\ ~procs[p].trapsTerm
  /\ ProcExit(p, NoCode)

Trap == \E p \in DOMAIN procs : TrapTerm(p)

TermExit == \E p \in 1..MaxTime : TermExitOf(p)

\* Requests, children that may ignore SIGTERM, and the exits the signal causes.
\* The operating system ends a signalled child that does not ignore the signal
\* and the event loop dispatches its 'exit' event: those exits are fair.
NextLive == Create \/ Stop \/ Restart \/ Trap \/ TermExit

SpecLive ==
  Init /\ [][NextLive]_vars /\ \A p \in 1..MaxTime : WF_vars(TermExitOf(p))

(* ------------------------------ Properties ----------------------------- *)
InSeq(x, sq) == \E i \in 1..Len(sq) : sq[i] = x

\* the live children spawned for session id
LiveChildren(id) == {p \in DOMAIN procs : procs[p].id = id /\ procs[p].live}

\* the handler that ran last appended exactly one record, of this level, for
\* this session identity
AppendedOne(sessionId, level) ==
  /\ currentLogId = last.logId0 + 1
  /\ last.logId0 \in DOMAIN logs
  /\ logs[last.logId0].level = level
  /\ logs[last.logId0].sessionId = sessionId

\* C1: a session's status is `running` if and only if the process table holds
\* a handle under that session's identity.
C1_RunningIffTracked ==
  \A id \in DOMAIN sessions :
     (sessions[id].status = "running") <=> (sessions[id].sessionId \in DOMAIN activeProcesses)

\* C2: from a stop's update until the session is restarted its status is never
\* `running`, and when an exit event of the session is handled in that span
\* (the exit of the process the stop terminated) the status is `stopped`.
C2_ExitAfterStopStaysStopped ==
  \A id \in stopRequested :
     /\ sessions[id].status # "running"
     /\ (last.op = "exit" /\ last.id = id) => sessions[id].status = "stopped"

C2_Witness ==
  /\ last.op = "exit"
  /\ last.id \in stopRequested
  /\ procs[last.proc].signalledBy = "stop"
  /\ last.code = NoCode

\* C3: when a running session's process exits with a non-zero code and no stop
\* was requested, the status becomes `error`, the end time is set and one
\* `error` record is appended for the session.
C3_NonZeroExitIsError ==
  (/\ last.op = "exit"
   /\ last.code > 0
   /\ last.status0 = "running"
   /\ last.id \notin stopRequested)
     => /\ sessions[last.id].status = "error"
        /\ sessions[last.id].endTime # NoTime
        /\ AppendedOne(sessions[last.id].sessionId, "error")

\* C4: for every session the end time is present if and only if the status is
\* not `running`.
C4_EndTimeIffNotRunning ==
  \A id \in DOMAIN sessions :
     (sessions[id].endTime # NoTime) <=> (sessions[id].status # "running")

\* C5: every session whose status is `running` has exactly one live child
\* process.
C5_OneLiveChildWhenRunning ==
  \A id \in DOMAIN sessions :
     sessions[id].status = "running" => Cardinality(LiveChildren(id)) = 1

\* C6: within one process generation the status is written to a terminal value
\* once: the exit or error event of a generation that a user stop has ended
\* writes neither the status nor the end time of the session again.
C6_NoSecondTerminalWrite ==
  [][(/\ last'.op \in {"exit", "error"}
      /\ last'.id \in stopRequested
      /\ procs[last'.proc].signalledBy = "stop")
        => sessions'[last'.id] = sessions[last'.id]]_vars

\* C7: a create whose spawn returns no pid answers with a failure and leaves
\* the Session Store, the Log Store, the process table, the timers and every
\* observer's inbox as they were.
C7_FailedCreatePersistsNothing ==
  [][(last'.op = "create" /\ last'.pid = NoPid)
        => /\ last'.resp = 500
           /\ UNCHANGED <<sessions, currentSessionId, logs, currentLogId,
                          activeProcesses, procs, timers, wsClients, sockets,
                          now, stopRequested, pending, dashboard>>]_vars

C7_Witness ==
  /\ last.op = "create"
  /\ last.pid = NoPid
  /\ last.resp = 500
  /\ DOMAIN sessions # {}
  /\ \E c \in wsClients : sockets[c].readyState = "OPEN" /\ sockets[c].inbox # <<>>

\* C8: after a successful create the stored session is `running`, has no end
\* time, has a primary command and a web URL built from its identity, its
\* process is tracked under its identity, and one `info` record was appended.
C8_CreatePostcondition ==
  (last.op = "create" /\ last.resp = 201)
     => /\ last.id \in DOMAIN sessions
        /\ LET s == sessions[last.id]
           IN  /\ s.id = last.id
               /\ s.status = "running"
               /\ s.endTime = NoTime
               /\ InSeq(s.sessionId, s.sshCommand)
               /\ InSeq(s.sessionId, s.webUrl)
               /\ s.processId = last.pid
               /\ s.sessionId \in DOMAIN activeProcesses
               /\ activeProcesses[s.sessionId] = last.proc
               /\ procs[last.proc].id = last.id
               /\ procs[last.proc].live
               /\ AppendedOne(s.sessionId, "info")

C8_Witness ==
  /\ last.op = "create"
  /\ last.resp = 201
  /\ last.id = 2

\* C9: after stop on an existing running session the status is `stopped`, the
\* end time is set, one `warning` record was appended, the process tracked
\* under the session's identity was sent the termination signal and the
\* process table holds no handle under that identity.
C9_StopPostcondition ==
  (last.op = "stop" /\ last.resp = 200 /\ last.status0 = "running")
     => LET s == sessions[last.id]
        IN  /\ s.status = "stopped"
            /\ s.endTime # NoTime
            /\ AppendedOne(s.sessionId, "warning")
            /\ last.tracked0 # NoProc => procs[last.tracked0].signalledBy = "stop"
            /\ s.sessionId \notin DOMAIN activeProcesses

C9_Witness ==
  /\ last.op = "stop"
  /\ last.resp = 200
  /\ last.status0 = "running"
  /\ last.tracked0 # NoProc
  /\ procs[last.tracked0].id = last.id

\* C10: a successful restart keeps the session's id and identity token, sets
\* the status to `running`, clears the end time, tracks a newly spawned process
\* under the identity after signalling the one tracked before, and appends one
\* `success` record.
C10_RestartPostcondition ==
  [][(last'.op = "restart" /\ last'.resp = 200)
        => LET id == last'.id
               p  == last'.proc
           IN  /\ DOMAIN sessions' = DOMAIN sessions
               /\ sessions'[id].id = id
               /\ sessions'[id].sessionId = sessions[id].sessionId
               /\ sessions'[id].status = "running"
               /\ sessions'[id].endTime = NoTime
               /\ p \notin DOMAIN procs
               /\ procs'[p].live /\ procs'[p].id = id /\ procs'[p].signalledBy = "none"
               /\ activeProcesses'[sessions[id].sessionId] = p
               /\ last'.tracked0 # NoProc => procs'[last'.tracked0].signalledBy = "restart"
               /\ currentLogId' = currentLogId + 1
               /\ logs'[currentLogId].level = "success"
               /\ logs'[currentLogId].sessionId = sessions[id].sessionId]_vars

C10_Witness ==
  /\ last.op = "restart"
  /\ last.resp = 200
  /\ last.tracked0 # NoProc
  /\ procs[last.tracked0].live
  /\ sessions[last.id].status = "running"

\* C11: stop and restart with an id that is not in the Session Store answer
\* not-found and change nothing: the sessions, the logs, the process table, the
\* processes (none spawned, none signalled), the timers, the observer set and
\* every observer's inbox stay as they were.
C11_UnknownIdChangesNothing ==
  [][(last'.op \in {"stop", "restart"} /\ last'.id \notin DOMAIN sessions)
        => /\ last'.resp = 404
           /\ last'.proc = NoProc
           /\ last'.pid = NoSpawn
           /\ UNCHANGED <<sessions, currentSessionId, logs, currentLogId,
                          activeProcesses, procs, timers, wsClients, sockets,
                          now, stopRequested, pending, dashboard>>]_vars

C11_Witness ==
  /\ last.op = "restart"
  /\ last.id \notin DOMAIN sessions
  /\ last.resp = 404
  /\ DOMAIN activeProcesses # {}
  /\ \E c \in wsClients : sockets[c].readyState = "OPEN" /\ sockets[c].inbox # <<>>

\* the ids of the records the step appends to the Log Store
Published == currentLogId..(currentLogId' - 1)

\* how many times record k was sent to a client
Deliveries(inbox, k) == Cardinality({i \in 1..Len(inbox) : inbox[i] = k})

\* the ids in lo..hi, in increasing order
RECURSIVE IdsFrom(_, _)
IdsFrom(lo, hi) == IF lo > hi THEN <<>> ELSE <<lo>> \o IdsFrom(lo + 1, hi)

\* C12: every record published while an observer is in the observer set is
\* delivered to that observer exactly once, unless the observer leaves the set
\* in the same step.
C12_PublishedReachesAllObservers ==
  [][\A k \in Published : \A c \in wsClients :
        c \in wsClients' => Deliveries(sockets'[c].inbox, k) = 1]_vars

\* C13: a publish that cannot deliver to an observer of the set, because its
\* channel is not open, removes that observer from the set.
C13_UndeliverableObserverRemoved ==
  [][Published # {} =>
        \A c \in wsClients : sockets[c].readyState # "OPEN" => c \notin wsClients']_vars

\* C14: when a publish skips an observer whose channel is not open, every
\* observer of the set whose channel is open still receives the published
\* records, once each and in order, the records stay in the Log Store, and the
\* handler that published ends normally: a create answers 201, a callback
\* answers no one.
C14_FailedDeliveryIsContained ==
  [][(Published # {} /\ \E c \in wsClients : sockets[c].readyState # "OPEN") =>
        /\ \A k \in Published : k \in DOMAIN logs'
        /\ \A c \in wsClients :
              sockets[c].readyState = "OPEN" =>
                 sockets'[c].inbox = sockets[c].inbox \o IdsFrom(currentLogId, currentLogId' - 1)
        /\ last'.resp = IF last'.op = "create" THEN 201 ELSE 0]_vars

C14_Witness ==
  /\ last.op = "stdout"
  /\ currentLogId = last.logId0 + 1
  /\ \E c, d \in wsClients :
        /\ c < d
        /\ sockets[c].readyState = "CLOSING"
        /\ sockets[d].readyState = "OPEN"
        /\ ~InSeq(last.logId0, sockets[c].inbox)
        /\ InSeq(last.logId0, sockets[d].inbox)

\* C15: in every observer's inbox the records of one session appear in the
\* order of their log ids, however the appends and the broadcasts of the
\* output listeners interleave.
C15_SessionOrderPreserved ==
  \A c \in DOMAIN sockets :
     \A i, j \in 1..Len(sockets[c].inbox) :
        (i < j /\ logs[sockets[c].inbox[i]].sessionId = logs[sockets[c].inbox[j]].sessionId)
           => sockets[c].inbox[i] < sockets[c].inbox[j]

C15_Witness ==
  /\ last.op = "broadcast"
  /\ ~Drained
  /\ \E c \in DOMAIN sockets :
        /\ Len(sockets[c].inbox) >= 2
        /\ logs[sockets[c].inbox[1]].sessionId = logs[sockets[c].inbox[2]].sessionId
        /\ logs[pending[1]].sessionId = logs[sockets[c].inbox[1]].sessionId

\* C16: an error event of a session's child, whichever handler spawned the
\* child (create or restart), sets the session's status to `error` and appends
\* one `error` record for the session; no caller is answered with a failure.
C16_ProcessErrorRecorded ==
  last.op = "error"
     => /\ sessions[last.id].status = "error"
        /\ AppendedOne(sessions[last.id].sessionId, "error")
        /\ last.resp = 0

\* C17: when the process of a running session exits with code zero and no stop
\* was requested, the status becomes `stopped`, the end time is set and one
\* `info` record carrying the exit code is appended for the session.
C17_CleanExitStops ==
  (/\ last.op = "exit"
   /\ last.code = 0
   /\ last.status0 = "running"
   /\ last.id \notin stopRequested)
     => /\ sessions[last.id].status = "stopped"
        /\ sessions[last.id].endTime # NoTime
        /\ AppendedOne(sessions[last.id].sessionId, "info")
        /\ logs[last.logId0].message = <<"Session ended with code: ", "0">>

C17_Witness ==
  /\ last.op = "exit"
  /\ last.code = 0
  /\ last.status0 = "running"
  /\ last.id \notin stopRequested
  /\ last.tracked0 = last.proc

\* C18: once a process's exit event has been handled the process table holds
\* no reference to that process, and the handling appended exactly one record,
\* `info` for exit code zero and `error` for any other.
C18_ExitDropsHandleAndLogsOnce ==
  /\ \A p \in DOMAIN procs :
        ~procs[p].live => \A t \in DOMAIN activeProcesses : activeProcesses[t] # p
  /\ last.op = "exit"
        => /\ currentLogId = last.logId0 + 1
           /\ logs[last.logId0].level = IF last.code = 0 THEN "info" ELSE "error"

C18_Witness ==
  /\ last.op = "exit"
  /\ last.code = 1
  /\ last.tracked0 = last.proc
  /\ DOMAIN activeProcesses # {}

\* C19: a child that stop has sent the termination signal eventually
\* terminates, whether or not it ignores that signal.
C19_StopEventuallyTerminates ==
  \A p \in 1..MaxTime :
     (p \in DOMAIN procs /\ procs[p].signalledBy = "stop")
        ~> (p \in DOMAIN procs /\ ~procs[p].live)

\* C20: a stop, restart, exit, process error or output handled for session A
\* leaves every other session B as it was: B's stored record, the process-table
\* entry under B's identity and the log records carrying B's identity.
C20_OtherSessionsUntouched ==
  [][(/\ last'.op \in {"stop", "restart", "exit", "error", "stdout", "stderr"}
      /\ last'.id \in DOMAIN sessions)
        => \A b \in DOMAIN sessions \ {last'.id} :
              /\ sessions'[b] = sessions[b]
              /\ MapGet(activeProcesses', sessions[b].sessionId, NoProc)
                    = MapGet(activeProcesses, sessions[b].sessionId, NoProc)
              /\ \A k \in DOMAIN logs \cup DOMAIN logs' :
                    (k \in DOMAIN logs' /\ logs'[k].sessionId = sessions[b].sessionId)
                       => (k \in DOMAIN logs /\ logs[k] = logs'[k])]_vars

\* C21: no two sessions of the Session Store carry the same sessionId, so no
\* entry of the process table stands for two sessions.
C21_TokensUnique ==
  \A a, b \in DOMAIN sessions :
     a # b => sessions[a].sessionId # sessions[b].sessionId

\* C22: an observer is in the observer set from its connect event until its
\* close or error event: connect adds the new client, close and error remove
\* theirs, no other handler changes the set, a removed client never returns
\* to it and receives no record published after its removal.
C22_ObserverSetFollowsConnection ==
  [][/\ (last'.op = "connect"
            => /\ last'.client \notin DOMAIN sockets
               /\ wsClients' = wsClients \cup {last'.client})
      /\ (last'.op \in {"close", "wserror"}
            => wsClients' = wsClients \ {last'.client})
      /\ (last'.op \notin {"connect", "close", "wserror"}
            => wsClients' = wsClients)
      /\ \A c \in DOMAIN sockets \ wsClients :
            c \notin wsClients' /\ sockets'[c].inbox = sockets[c].inbox]_vars

C22_Witness ==
  /\ last.op = "stdout"
  /\ currentLogId = last.logId0 + 1
  /\ \E c \in DOMAIN sockets \ wsClients :
        /\ sockets[c].inbox # << >>
        /\ ~InSeq(last.logId0, sockets[c].inbox)
  /\ \E d \in wsClients : InSeq(last.logId0, sockets[d].inbox)

(* ------------------- MemStorage called on its own ---------------------- *)
\* The store is an exported object: these specifications call its methods with
\* every argument of a small domain, from the state the constructor leaves.
MaxLogs  == 3      \* addLog calls
MaxStamp == 2      \* readings of the clock `new Date()` takes

\* `new Date()` reads the wall clock: two calls may read the same millisecond,
\* and the clock may have been set back between them
Stamps == 1..MaxStamp

\* getRecentLogs(limit: number = 100)
DefaultLimit == 100

Limits == (-1..MaxLogs) \cup {DefaultLimit}

\* `sessionId` as a caller may pass it: a token, the empty string, or nothing
Owners == Tokens \cup {"", NULL}

\* Array.from(map.values()): a Map iterates in insertion order, and every key
\* is inserted once, with the counter's next value
RECURSIVE Values(_)
Values(m) ==
  IF DOMAIN m = {} THEN << >>
  ELSE LET k == CHOOSE x \in DOMAIN m : \A y \in DOMAIN m : x <= y
       IN  <<m[k]>> \o Values(MapDelete(m, k))

\* Array.prototype.sort(compareFn), which is stable: s[j] goes before s[i]
\* when compareFn(s[j], s[i]) < 0, and elements that compare equal keep their
\* order.  compare[j][i] is compareFn(s[j], s[i]).
Sort(s, compare) ==
  LET rank(i) == Cardinality({j \in 1..Len(s) :
                     \/ compare[j][i] < 0
                     \/ ~(compare[i][j] < 0) /\ j < i})
  IN  [r \in 1..Len(s) |-> s[CHOOSE i \in 1..Len(s) : rank(i) = r - 1]]

\* Array.prototype.slice(0, end)
Slice(s, end) ==
  LET e == IF end < 0 THEN (IF Len(s) + end < 0 THEN 0 ELSE Len(s) + end)
           ELSE IF end > Len(s) THEN Len(s) ELSE end
  IN  SubSeq(s, 1, e)

\* a compareFn that orders nothing
InsertionOrder(a, b) == 0

\* getSessionLogs: (a, b) => a.timestamp - b.timestamp
OldestFirst(a, b) == a.timestamp - b.timestamp

\* getRecentLogs: (a, b) => b.timestamp - a.timestamp
NewestFirst(a, b) == b.timestamp - a.timestamp

getSessionLogs(ls, sessionId) ==
  LET own == SelectSeq(Values(ls), LAMBDA log : log.sessionId = sessionId)
  IN  Sort(own, [i \in 1..Len(own) |-> [j \in 1..Len(own) |-> OldestFirst(own[i], own[j])]])

getRecentLogs(ls, limit) ==
  LET all == Values(ls)
  IN  Slice(Sort(all, [i \in 1..Len(all) |-> [j \in 1..Len(all) |-> NewestFirst(all[i], all[j])]]),
            limit)

\* `if (sessionId)`: undefined and the empty string are falsy
Truthy(sessionId) == sessionId # NULL /\ sessionId # ""

clearLogs(ls, sessionId) ==
  IF Truthy(sessionId)
  THEN [id \in {i \in DOMAIN ls : ls[i].sessionId # sessionId} |-> ls[id]]
  ELSE << >>

\* a clear that starts the ids again
CounterReset(n) == 1

\* clearLogs assigns nothing to currentLogId
CounterAfterClear(n) == n

\* currentLogId++
NextLogId(n) == n + 1

StoreCall(op, args, read, result) ==
  [Event(op, NoId, NoProc, NoSpawn, NoCode, 0)
     EXCEPT !.arg = args, !.seen = read, !.reply = result]

LogsFrame ==
  UNCHANGED <<sessions, currentSessionId, activeProcesses, wsClients, procs,
              timers, sockets, now, stopRequested, pending, dashboard>>

AddLog ==
  /\ currentLogId <= MaxLogs
  /\ \E sessionId \in Tokens, t \in Stamps :
       LET log == NewLog([sessionId |-> sessionId, message |-> <<"a">>,
                          level |-> "info"], currentLogId, t)
       IN  /\ logs' = MapSet(logs, currentLogId, log)
           /\ currentLogId' = NextLogId(currentLogId)
           /\ last' = StoreCall("addLog", <<sessionId>>, << >>, <<log>>)
  /\ LogsFrame

SessionLogs ==
  /\ \E sessionId \in Tokens \cup {""} :
       last' = StoreCall("getSessionLogs", <<sessionId>>, << >>,
                         getSessionLogs(logs, sessionId))
  /\ UNCHANGED <<logs, currentLogId>>
  /\ LogsFrame

RecentLogs ==
  /\ \E limit \in Limits :
       last' = StoreCall("getRecentLogs", <<limit>>, << >>,
                         getRecentLogs(logs, limit))
  /\ UNCHANGED <<logs, currentLogId>>
  /\ LogsFrame

ClearLogs ==
  /\ \E sessionId \in Owners :
       /\ logs' = clearLogs(logs, sessionId)
       /\ last' = StoreCall("clearLogs", <<sessionId>>, << >>, << >>)
  /\ currentLogId' = CounterAfterClear(currentLogId)
  /\ LogsFrame

NextLogs == AddLog \/ SessionLogs \/ RecentLogs \/ ClearLogs

SpecLogs == Init /\ [][NextLogs]_vars

\* the stored records a session owns
OwnedBy(sessionId) == {i \in DOMAIN logs : logs[i].sessionId = sessionId}

\* C23: what getSessionLogs(sessionId) returned is, for every content of the
\* store, exactly the stored records whose sessionId is the one asked for, each
\* once, and their timestamps never decrease along the result.
C23_BySessionExactAndOldestFirst ==
  last.op = "getSessionLogs" =>
    LET r == last.reply
        sessionId == last.arg[1]
    IN  /\ Len(r) = Cardinality(OwnedBy(sessionId))
        /\ \A i \in OwnedBy(sessionId) : InSeq(logs[i], r)
        /\ \A i \in 1..Len(r) : r[i].id \in OwnedBy(sessionId) /\ logs[r[i].id] = r[i]
        /\ \A i, j \in 1..Len(r) : i < j => r[i].timestamp <= r[j].timestamp

\* a result that differs from the insertion order, from a store that also holds
\* another session's record
C23_Witness ==
  /\ last.op = "getSessionLogs"
  /\ Len(last.reply) >= 2
  /\ last.reply[1].id > last.reply[2].id
  /\ last.reply[1].timestamp < last.reply[2].timestamp
  /\ \E i \in DOMAIN logs : logs[i].sessionId # last.arg[1]

\* C24: for every limit passed and every content of the store, what
\* getRecentLogs(limit) returned has at most `limit` records (none when the
\* limit is below one), they are stored records none of which is older than a
\* record left out, and their timestamps never increase along the result.
C24_RecentBoundedNewestFirst ==
  last.op = "getRecentLogs" =>
    LET r == last.reply
        limit == last.arg[1]
    IN  /\ Len(r) <= (IF limit < 0 THEN 0 ELSE limit)
        /\ \A i \in 1..Len(r) : r[i].id \in DOMAIN logs /\ logs[r[i].id] = r[i]
        /\ \A i \in 1..Len(r), k \in DOMAIN logs :
              ~InSeq(logs[k], r) => logs[k].timestamp <= r[i].timestamp
        /\ \A i, j \in 1..Len(r) : i < j => r[i].timestamp >= r[j].timestamp

\* C25: clearLogs with no sessionId leaves the store empty; clearLogs(sessionId),
\* whatever the value of sessionId, removes the records that session owns and
\* leaves every other record as it was.
C25_ClearRemovesExactlyTheSession ==
  [][last'.op = "clearLogs" =>
       LET sessionId == last'.arg[1]
       IN  IF sessionId = NULL
           THEN DOMAIN logs' = {}
           ELSE /\ DOMAIN logs' = DOMAIN logs \ OwnedBy(sessionId)
                /\ \A i \in DOMAIN logs' : logs'[i] = logs[i]]_vars

(* --------------------- MemStorage session methods ---------------------- *)
\* `updates` a caller may pass to updateSession
Partials ==
  {[status |-> "stopped"], [status |-> "running"]}
    \cup {[startTime |-> t] : t \in Stamps}

\* getAllSessions / getActiveSessions: (a, b) => b.startTime - a.startTime
LatestStartFirst(a, b) == b.startTime - a.startTime

getAllSessions(ss) ==
  LET all == Values(ss)
  IN  Sort(all, [i \in 1..Len(all) |-> [j \in 1..Len(all) |-> LatestStartFirst(all[i], all[j])]])

\* a filter that keeps every session
IsStored(session) == TRUE

\* getActiveSessions: session.status === "running"
IsRunning(session) == session.status = "running"

getActiveSessions(ss) ==
  LET active == SelectSeq(Values(ss), IsRunning)
  IN  Sort(active, [i \in 1..Len(active) |->
                     [j \in 1..Len(active) |-> LatestStartFirst(active[i], active[j])]])

\* an increment that is lost
SameSessionId(n) == n

\* currentSessionId++
NextSessionId(n) == n + 1

SessionsFrame ==
  UNCHANGED <<logs, currentLogId, activeProcesses, wsClients, procs, timers,
              sockets, now, stopRequested, pending, dashboard>>

StoreCreate ==
  /\ currentSessionId <= MaxSessions
  /\ \E sessionId \in Tokens, body \in Bodies, t \in Stamps :
       LET session == NewSession(CreateInsert(sessionId, body.name, body.region, 1),
                                 currentSessionId, t)
       IN  /\ sessions' = MapSet(sessions, currentSessionId, session)
           /\ currentSessionId' = NextSessionId(currentSessionId)
           /\ last' = StoreCall("createSession", <<sessionId>>, << >>, <<session>>)
  /\ SessionsFrame

StoreUpdate ==
  /\ \E id \in Ids, updates \in Partials :
       /\ sessions' = UpdateSession(sessions, id, updates)
       /\ last' = StoreCall("updateSession", <<id, updates>>,
                            IF id \in DOMAIN sessions THEN <<sessions[id]>> ELSE << >>,
                            IF id \in DOMAIN sessions THEN <<sessions'[id]>> ELSE << >>)
  /\ UNCHANGED currentSessionId
  /\ SessionsFrame

StoreDelete ==
  /\ \E id \in Ids :
       /\ sessions' = MapDelete(sessions, id)
       /\ last' = StoreCall("deleteSession", <<id>>, << >>, << >>)
  /\ UNCHANGED currentSessionId
  /\ SessionsFrame

ListAll ==
  /\ last' = StoreCall("getAllSessions", << >>, << >>, getAllSessions(sessions))
  /\ UNCHANGED <<sessions, currentSessionId>>
  /\ SessionsFrame

ListActive ==
  /\ last' = StoreCall("getActiveSessions", << >>, << >>, getActiveSessions(sessions))
  /\ UNCHANGED <<sessions, currentSessionId>>
  /\ SessionsFrame

NextSessions == StoreCreate \/ StoreUpdate \/ StoreDelete \/ ListAll \/ ListActive

SpecSessions == Init /\ [][NextSessions]_vars

\* C26: updateSession(id, updates) on a stored id gives every field of `updates`
\* its new value and leaves the record's other fields and every other record as
\* they were; on an id the store does not hold it returns nothing and the store
\* is unchanged.
C26_UpdateMergesExactlyGivenFields ==
  [][last'.op = "updateSession" =>
       LET id == last'.arg[1]
           updates == last'.arg[2]
       IN  IF id \in DOMAIN sessions
           THEN /\ DOMAIN sessions' = DOMAIN sessions
                /\ DOMAIN sessions'[id] = DOMAIN sessions[id] \cup DOMAIN updates
                /\ \A f \in DOMAIN updates : sessions'[id][f] = updates[f]
                /\ \A f \in DOMAIN sessions[id] \ DOMAIN updates :
                      sessions'[id][f] = sessions[id][f]
                /\ \A other \in DOMAIN sessions \ {id} :
                      sessions'[other] = sessions[other]
                /\ last'.reply = <<sessions'[id]>>
           ELSE /\ last'.reply = << >>
                /\ sessions' = sessions]_vars

\* an update that changed a field of one of two stored sessions
C26_Witness ==
  /\ last.op = "updateSession"
  /\ Cardinality(DOMAIN sessions) = 2
  /\ last.seen # << >>
  /\ last.reply # last.seen
  /\ last.arg[1] \in DOMAIN sessions
  /\ sessions[last.arg[1]] = last.reply[1]

\* C27: getAllSessions returns every stored session once, start times never
\* increasing along the result; getActiveSessions returns exactly the stored
\* sessions whose status is `running`, in the order getAllSessions gives them.
C27_ListsOrderedAndActiveIsSubsequence ==
  /\ last.op = "getAllSessions" =>
       LET r == last.reply
       IN  /\ Len(r) = Cardinality(DOMAIN sessions)
           /\ \A id \in DOMAIN sessions : InSeq(sessions[id], r)
           /\ \A i, j \in 1..Len(r) : i < j => r[i].startTime >= r[j].startTime
  /\ last.op = "getActiveSessions" =>
       LET r == last.reply
           running == {id \in DOMAIN sessions : sessions[id].status = "running"}
       IN  /\ Len(r) = Cardinality(running)
           /\ \A id \in running : InSeq(sessions[id], r)
           /\ \A i \in 1..Len(r) : r[i].status = "running"
           /\ r = SelectSeq(getAllSessions(sessions),
                            LAMBDA session : session.status = "running")

\* two running sessions listed against the order they were created in
C27_Witness ==
  /\ last.op = "getActiveSessions"
  /\ Len(last.reply) = 2
  /\ Cardinality(DOMAIN sessions) = 2
  /\ last.reply[1].id > last.reply[2].id
  /\ last.reply[1].startTime > last.reply[2].startTime

\* C28: createSession stores the new session under the counter's value, which
\* is above every id the store holds or has held, and moves the counter on;
\* no other method moves the counter, so an id is not given twice, also after
\* deleteSession; the new record has the clock's reading as start time and no
\* end time.
C28_CreateAllocatesFreshIds ==
  /\ [](\A id \in DOMAIN sessions : id < currentSessionId /\ sessions[id].id = id)
  /\ [][/\ currentSessionId' >= currentSessionId
        /\ \A id \in DOMAIN sessions' \ DOMAIN sessions :
              /\ id = currentSessionId
              /\ currentSessionId' = currentSessionId + 1
              /\ sessions'[id].startTime \in Stamps
              /\ sessions'[id].endTime = NoTime
              /\ last'.op = "createSession"
        /\ last'.op = "createSession" =>
              /\ DOMAIN sessions' = DOMAIN sessions \cup {currentSessionId}
              /\ last'.reply = <<sessions'[currentSessionId]>>]_vars

\* a session created after the only earlier one was deleted
C28_Witness ==
  /\ last.op = "createSession"
  /\ last.reply[1].id = 2
  /\ DOMAIN sessions = {2}

\* C29: every stored log record sits under its own id, below the counter;
\* addLog stores the new record under the counter's value and moves the
\* counter on, and nothing, clearLogs with or without a sessionId included,
\* moves the counter back: ids grow in append order and the id of a deleted
\* record is not given again.
C29_LogIdsNeverReassigned ==
  /\ [](\A id \in DOMAIN logs : id < currentLogId /\ logs[id].id = id)
  /\ [][/\ currentLogId' >= currentLogId
        /\ \A id \in DOMAIN logs' \ DOMAIN logs :
              /\ id = currentLogId
              /\ currentLogId' = currentLogId + 1
        /\ last'.op = "addLog" =>
              /\ DOMAIN logs' = DOMAIN logs \cup {currentLogId}
              /\ last'.reply = <<logs'[currentLogId]>>]_vars

\* a record appended after every earlier one was cleared
C29_Witness ==
  /\ last.op = "addLog"
  /\ last.reply[1].id = MaxLogs
  /\ DOMAIN logs = {MaxLogs}

\* C30: a call of updateSession is one indivisible read-modify-write: when two
\* calls on the same stored id that give disjoint sets of fields follow each
\* other, whoever the callers are, the stored record holds afterwards the
\* fields of the first call and the fields of the second.
C30_NoLostUpdate ==
  [][(/\ last.op = "updateSession"
      /\ last'.op = "updateSession"
      /\ last.arg[1] = last'.arg[1]
      /\ last.arg[1] \in DOMAIN sessions
      /\ DOMAIN last.arg[2] \cap DOMAIN last'.arg[2] = {})
       => LET id == last.arg[1]
          IN  /\ \A f \in DOMAIN last.arg[2] : sessions'[id][f] = last.arg[2][f]
              /\ \A f \in DOMAIN last'.arg[2] : sessions'[id][f] = last'.arg[2][f]]_vars

\* a session that only an update can have stopped, after another update, with
\* another field, moved its start time
C30_Witness ==
  /\ last.op = "updateSession"
  /\ DOMAIN last.arg[2] = {"startTime"}
  /\ last.seen # << >>
  /\ last.seen[1].startTime # last.arg[2].startTime
  /\ last.seen[1].status = "stopped"
  /\ sessions[last.arg[1]].status = "stopped"
  /\ sessions[last.arg[1]].startTime = last.arg[2].startTime

(* --------------- Output of both process generations -------------------- *)
\* restart requests for stored sessions, with observers connected
HubRestart ==
  HubRuns /\ \E id \in DOMAIN sessions, pid \in {NoPid, Len(procs) + 1} : RestartSession(id, pid)

NextGen ==
  HubCreate \/ HubRestart \/ HubStdout \/ HubStderr \/ WsConnect \/ Closing

SpecGen == Init /\ [][NextGen]_vars

\* msg is data without the blanks at its two ends
Trimmed(data, msg) ==
  \E i, j \in 1..Len(data) :
     /\ msg = SubSeq(data, i, j)
     /\ data[i] # " " /\ data[j] # " "
     /\ \A k \in 1..Len(data) : (k < i \/ k > j) => data[k] = " "

\* C31: a chunk a session's child writes that is not empty once trimmed
\* becomes exactly one new log record, `info` from stdout and `error` from
\* stderr, owned by the session's sessionId and carrying the trimmed text; the
\* stored records stay as they were and the new record's id is sent to every
\* OPEN client of the set.  A chunk of blanks leaves logs and clients alone.
C31_OutputBecomesOneRecord ==
  [][last'.op \in {"stdout", "stderr"} =>
       LET data == last'.arg[1]
           id   == currentLogId
       IN  IF \E k \in 1..Len(data) : data[k] # " "
           THEN /\ currentLogId' = id + 1
                /\ DOMAIN logs' = DOMAIN logs \cup {id}
                /\ \A i \in DOMAIN logs : logs'[i] = logs[i]
                /\ logs'[id].level = (IF last'.op = "stdout" THEN "info" ELSE "error")
                /\ logs'[id].sessionId = sessions[last'.id].sessionId
                /\ Trimmed(data, logs'[id].message)
                /\ \A c \in DOMAIN sockets :
                      sockets'[c].inbox =
                        IF c \in wsClients /\ sockets[c].readyState = "OPEN"
                        THEN Append(sockets[c].inbox, id)
                        ELSE sockets[c].inbox
           ELSE /\ logs' = logs
                /\ currentLogId' = currentLogId
                /\ sockets' = sockets]_vars

\* stderr output of a child that restart spawned, recorded and sent to a client
C31_Witness ==
  /\ last.op = "stderr"
  /\ procs[last.proc].gen = "restart"
  /\ currentLogId = last.logId0 + 1
  /\ logs[last.logId0].level = "error"
  /\ \E c \in wsClients : InSeq(last.logId0, sockets[c].inbox)

\* C32: a stop of a stored session under whose identity no process is tracked
\* signals no process, leaves the process table alone, and answers with the
\* updated session: status `stopped`, end time set.
C32_StopWithoutProcessIsNoError ==
  [][(/\ last'.op = "stop"
      /\ last'.id \in DOMAIN sessions
      /\ sessions[last'.id].sessionId \notin DOMAIN activeProcesses)
        => /\ procs' = procs
           /\ activeProcesses' = activeProcesses
           /\ last'.resp = 200
           /\ sessions'[last'.id].status = "stopped"
           /\ sessions'[last'.id].endTime # NoTime]_vars

\* such a stop of a session one of whose children is still alive
C32_Witness ==
  /\ last.op = "stop"
  /\ last.resp = 200
  /\ last.tracked0 = NoProc
  /\ \E p \in DOMAIN procs : procs[p].id = last.id /\ procs[p].live

(* --------------------------- Host shutdown ----------------------------- *)
\* process.exit(0) has not run
Up == last.op # "shutdown"

\* a shutdown loop that signals one tracked process only
KillOne(ps, table) ==
  [p \in DOMAIN ps |->
     IF \E k \in DOMAIN table : table[k] = p /\ \A j \in DOMAIN table : table[j] >= p
     THEN [ps[p] EXCEPT !.signalledBy = "shutdown"] ELSE ps[p]]

\* activeProcesses.forEach((process) => process.kill('SIGTERM'))
KillAll(ps, table) ==
  [p \in DOMAIN ps |->
     IF \E k \in DOMAIN table : table[k] = p
     THEN [ps[p] EXCEPT !.signalledBy = "shutdown"] ELSE ps[p]]

\* process.on('SIGINT')
Shutdown ==
  /\ Up
  /\ procs' = KillAll(procs, activeProcesses)
  /\ activeProcesses' = << >>
  /\ last' = Event("shutdown", NoId, NoProc, NoSpawn, NoCode, 0)
  /\ UNCHANGED <<sessions, currentSessionId, logs, currentLogId, wsClients,
                 timers, sockets, now, stopRequested, pending, dashboard>>

UpCreate == Up /\ Create

UpStop == Up /\ Stop

UpRestart == Up /\ Restart

UpExit == Up /\ Exit

NextShutdown == UpCreate \/ UpStop \/ UpRestart \/ UpExit \/ Shutdown

SpecShutdown == Init /\ [][NextShutdown]_vars

\* C33: the shutdown hook sends the termination signal to every process the
\* process table holds when it runs, and leaves the table empty.
C33_ShutdownSignalsAllTracked ==
  [][last'.op = "shutdown" =>
       /\ \A k \in DOMAIN activeProcesses :
             procs'[activeProcesses[k]].signalledBy = "shutdown"
       /\ DOMAIN activeProcesses' = {}]_vars

\* a shutdown that found two processes in the table, and one outside it that
\* is alive and was left alone
C33_Witness ==
  /\ last.op = "shutdown"
  /\ Cardinality({p \in DOMAIN procs : procs[p].signalledBy = "shutdown"}) = 2
  /\ \E p \in DOMAIN procs : procs[p].live /\ procs[p].signalledBy # "shutdown"

\* C34: once a restart has succeeded, so that the session is `running` and the
\* process tracked under its identity is the one the restart spawned, the exit
\* or error event of a process of an earlier generation of that session leaves
\* the status `running`, the end time absent and the tracked handle in place.
C34_LateExitLeavesNewGeneration ==
  [][(/\ last'.op \in {"exit", "error"}
      /\ last'.id \in DOMAIN sessions
      /\ sessions[last'.id].status = "running"
      /\ sessions[last'.id].sessionId \in DOMAIN activeProcesses
      /\ LET q == activeProcesses[sessions[last'.id].sessionId]
         IN  /\ procs[q].id = last'.id
             /\ procs[q].gen = "restart"
             /\ last'.proc < q)
        => /\ sessions'[last'.id].status = "running"
           /\ sessions'[last'.id].endTime = NoTime
           /\ sessions'[last'.id].sessionId \in DOMAIN activeProcesses'
           /\ activeProcesses'[sessions'[last'.id].sessionId]
                 = activeProcesses[sessions[last'.id].sessionId]]_vars

\* C35: a restart of a stored session whose spawn returns no pid answers with
\* a failure and leaves the session's record and the process table as they
\* were, and signals no process.
C35_FailedRestartChangesNothing ==
  [][(/\ last'.op = "restart"
      /\ last'.id \in DOMAIN sessions
      /\ last'.pid = NoPid)
        => /\ last'.resp = 500
           /\ sessions' = sessions
           /\ activeProcesses' = activeProcesses
           /\ procs' = procs]_vars

(* ------------- Lifecycle with the output listeners --------------------- *)
NextStatus == Create \/ Stop \/ Restart \/ Exit \/ Error \/ Stdout \/ Stderr \/ Timer

SpecStatus == Init /\ [][NextStatus]_vars

\* C36: a session's status becomes `running`, from no record or from another
\* status, only in a create or a restart of that session that succeeded: no
\* exit, error, output, timer or stop handler moves a session to `running`.
C36_RunningOnlyByCreateOrRestart ==
  [][\A id \in DOMAIN sessions' :
        (/\ sessions'[id].status = "running"
         /\ id \in DOMAIN sessions => sessions[id].status # "running")
          => /\ last'.id = id
             /\ \/ last'.op = "create" /\ last'.resp = 201 /\ id \notin DOMAIN sessions
                \/ last'.op = "restart" /\ last'.resp = 200 /\ id \in DOMAIN sessions]_vars

\* a restart that took a session back to `running` after its child's exit had
\* stopped it
C36_Witness ==
  /\ last.op = "restart"
  /\ last.resp = 200
  /\ last.status0 = "stopped"
  /\ sessions[last.id].status = "running"
  /\ \E p \in DOMAIN procs : procs[p].id = last.id /\ ~procs[p].live

\* C37: the timer that create set for a session appends its records only while
\* the session is `running`: when the session has been stopped, or its process
\* has exited, before the timer fires, the callback appends no `success`
\* record for it.
C37_ReadinessOnlyWhileRunning ==
  [][(/\ last'.op = "timer"
      /\ sessions[last'.id].status # "running")
        => \A i \in DOMAIN logs' \ DOMAIN logs : logs'[i].level # "success"]_vars

\* C38: in every reachable state every key of the process table is the
\* sessionId of a session the Session Store holds.
C38_TrackedKeysAreStoredSessions ==
  \A k \in DOMAIN activeProcesses :
     \E id \in DOMAIN sessions : sessions[id].sessionId = k

\* two keys in the table, one of them set by a restart
C38_Witness ==
  /\ Cardinality(DOMAIN activeProcesses) = 2
  /\ last.op = "restart"
  /\ last.resp = 200
  /\ activeProcesses[sessions[last.id].sessionId] = last.proc

(* ----------------------------- Dashboard ------------------------------- *)
\* The page opens one WebSocket when it mounts and polls GET /api/logs.  The
\* socket's messages and the poll's results travel on two connections, so
\* the page may handle a result computed after a record was sent before it
\* handles that record's message.
DashSocket == 1        \* the page's WebSocket is the first the server accepts

KeepLast == 100        \* .slice(-100)

\* Array.prototype.slice(-n)
SliceLast(s, n) == IF Len(s) <= n THEN s ELSE SubSeq(s, Len(s) - n + 1, Len(s))

\* the ids of a list of records, in its order
IdsOf(records) == [i \in 1..Len(records) |-> records[i].id]

\* the effect on [recentLogs]: setLogs(prev => [...prev, ...newLogs].slice(-100))
MergeRecent(prev, recentLogs) ==
  IF Len(recentLogs) > 0
  THEN SliceLast(prev \o SelectSeq(recentLogs, LAMBDA id : ~InSeq(id, prev)), KeepLast)
  ELSE prev

\* ws.onmessage: setLogs(prev => [...prev, message.data].slice(-100))
OnMessage(prev, id) == SliceLast(Append(prev, id), KeepLast)

DashFrame ==
  UNCHANGED <<sessions, currentSessionId, logs, currentLogId, activeProcesses,
              wsClients, procs, timers, sockets, now, stopRequested, pending>>

\* GET /api/logs answers the page's query; one request is in flight at a time
DashFetch ==
  /\ dashboard.recentLogs = << >>
  /\ dashboard' = [dashboard EXCEPT
                     !.recentLogs = <<IdsOf(getRecentLogs(logs, DefaultLimit))>>]
  /\ last' = Event("fetch", NoId, NoProc, NoSpawn, NoCode, 200)
  /\ DashFrame

\* the result reaches the page and the effect on [recentLogs] runs
DashRecent ==
  /\ dashboard.recentLogs # << >>
  /\ dashboard' = [dashboard EXCEPT
                     !.logs = MergeRecent(@, dashboard.recentLogs[1]),
                     !.recentLogs = << >>]
  /\ last' = Event("recent", NoId, NoProc, NoSpawn, NoCode, 0)
  /\ DashFrame

\* the next message of the page's WebSocket reaches ws.onmessage
DashMessage ==
  /\ DashSocket \in DOMAIN sockets
  /\ dashboard.handled < Len(sockets[DashSocket].inbox)
  /\ dashboard' = [dashboard EXCEPT
                     !.logs = OnMessage(@, sockets[DashSocket].inbox[dashboard.handled + 1]),
                     !.handled = @ + 1]
  /\ last' = [Event("message", NoId, NoProc, NoSpawn, NoCode, 0) EXCEPT !.client = DashSocket]
  /\ DashFrame

NextDashboard ==
  HubCreate \/ HubStdout \/ WsConnect \/ DashFetch \/ DashRecent \/ DashMessage

SpecDashboard == Init /\ [][NextDashboard]_vars

\* C39: the page's list of logs never holds two entries with the same id,
\* however the results of the recent-logs query and the messages of the
\* WebSocket interleave, and never holds more than 100 entries.
C39_DisplayedLogsDistinct ==
  /\ \A i, j \in 1..Len(dashboard.logs) :
        i # j => dashboard.logs[i] # dashboard.logs[j]
  /\ Len(dashboard.logs) <= KeepLast
====
